---- MODULE Spec2Model ----
(***************************************************************************)
(* Nebula Servers backend poller (src/unnamed/part_000).                   *)
(*                                                                         *)
(* The module holds one state space and several specifications over it:    *)
(*   SpecPool     mapWithConcurrency with an arbitrary mapper              *)
(*   Spec         the process: the executions of main and the files        *)
(*   SpecChecker  one call of checkTcp, checkHttp or checkMinecraft        *)
(*   SpecMerge    the merge and the snapshot record of one target          *)
(*   SpecRoute    runCheck and the record of one target                    *)
(*   SpecVarint   writeVarInt followed by readVarInt                       *)
(*   SpecLive     the process with the checkers of its targets, with       *)
(*                fairness for the program's steps and the timers          *)
(* Each specification moves its own variables and leaves the others at     *)
(* their idle values.                                                      *)
(***************************************************************************)
EXTENDS Integers, Sequences, FiniteSets, TLC

VARIABLES
    pool,       \* the state of one mapWithConcurrency call (SpecPool)
    pOrder,     \* the indexes of that call in the order their mappers settled
    ticks,      \* the executions of main() the process has started
    fs,         \* the files the poller reads and writes
    clock,      \* Date.now()
    exitCode,   \* process.exitCode
    ck,         \* one call of a checker (SpecChecker)
    mg,         \* one target merged and persisted over two ticks (SpecMerge)
    rt,         \* one target taken through runCheck and the merge (SpecRoute)
    vi,         \* one number written and read back as a varint (SpecVarint)
    cks         \* the checker calls of each execution of main (SpecLive)

vars == <<pool, pOrder, ticks, fs, clock, exitCode, ck, mg, rt, vi, cks>>

poolVars == <<pool, pOrder>>

tickVars == <<ticks, fs, clock, exitCode>>

ckVars == <<ck>>

mgVars == <<mg>>

rtVars == <<rt>>

viVars == <<vi>>

lvVars == <<cks>>

(***************************************************************************)
(* Bounds of the model.                                                    *)
(***************************************************************************)
MaxItems == 3       \* longest items array given to the pool
MaxLimit == 3       \* largest concurrency limit given to the pool
MaxTargets == 2     \* longest target list in servers.config.json
MaxClock == 1       \* the clock advances at most this many milliseconds

(***************************************************************************)
(* Helpers.                                                                *)
(***************************************************************************)
SeqsUpTo(S, n) == UNION {[1..k -> S] : k \in 0..n}

Range(s) == {s[k] : k \in DOMAIN s}

(***************************************************************************)
(* JavaScript values as the source handles them.  A value is a record      *)
(* tagged by its type; a string is the sequence of its characters, so that *)
(* startsWith, trim and toLowerCase are computed, not assumed.             *)
(***************************************************************************)
JUndef == [t |-> "undef"]

JNull == [t |-> "null"]

JNaN == [t |-> "nan"]

JBool(b) == [t |-> "bool", b |-> b]

JNum(n) == [t |-> "num", n |-> n]

JStr(s) == [t |-> "str", s |-> s]

\* ToBoolean: undefined, null, NaN, false, 0 and "" are falsy.
Truthy(v) ==
    CASE v.t = "bool" -> v.b
      [] v.t = "num"  -> v.n # 0
      [] v.t = "str"  -> v.s # <<>>
      [] OTHER        -> FALSE

\* a || b
JOr(a, b) == IF Truthy(a) THEN a ELSE b

Digits == <<"0", "1", "2", "3", "4", "5", "6", "7", "8", "9">>

IsDigit(c) == \E d \in 1..10 : Digits[d] = c

DigitValue(c) == (CHOOSE d \in 1..10 : Digits[d] = c) - 1

RECURSIVE DecimalValue(_)
DecimalValue(s) ==
    IF s = <<>> THEN 0
    ELSE 10 * DecimalValue(SubSeq(s, 1, Len(s) - 1)) + DigitValue(s[Len(s)])

\* Number(v) for the values a parsed JSON document can hold: a string of
\* decimal digits is its value, "" is 0, any other string is NaN.
ToNumber(v) ==
    CASE v.t = "num"  -> v
      [] v.t = "bool" -> JNum(IF v.b THEN 1 ELSE 0)
      [] v.t = "null" -> JNum(0)
      [] v.t = "str"  -> IF \A k \in DOMAIN v.s : IsDigit(v.s[k])
                         THEN JNum(DecimalValue(v.s))
                         ELSE JNaN
      [] OTHER        -> JNaN

\* Number.isFinite(v) && v > 0
FinitePositive(v) == v.t = "num" /\ v.n > 0

Lower(c) ==
    CASE c = "F" -> "f"
      [] c = "A" -> "a"
      [] c = "L" -> "l"
      [] c = "S" -> "s"
      [] c = "E" -> "e"
      [] OTHER   -> c

\* String.prototype.toLowerCase over the letters of "false"
ToLowerCase(s) == [k \in DOMAIN s |-> Lower(s[k])]

\* String.prototype.startsWith
StartsWith(s, prefix) ==
    Len(s) >= Len(prefix) /\ SubSeq(s, 1, Len(prefix)) = prefix

\* !id.trim(): the string holds nothing but white space
IsBlank(s) == \A k \in DOMAIN s : s[k] = " "

sHttp == <<"h", "t", "t", "p">>

sFalse == <<"f", "a", "l", "s", "e">>

sWildcard == <<"0", ".", "0", ".", "0", ".", "0">>

sLoopback == <<"1", "2", "7", ".", "0", ".", "0", ".", "1">>

(***************************************************************************)
(* Target descriptors: one element of servers.config.json.  An object is   *)
(* a record of the fields the poller reads, a missing field is undefined;  *)
(* an element may also be null.                                            *)
(***************************************************************************)
Target(id, enabled, url, ip, host, port, timeoutMs) ==
    [t |-> "obj", id |-> id, enabled |-> enabled, url |-> url, ip |-> ip,
     host |-> host, port |-> port, timeoutMs |-> timeoutMs]

\* Tunables, lines 29-30
DEFAULT_TIMEOUT_MS == 3500

CONCURRENCY == 10

\* Mutant of isEnabled: only the boolean false disables.
isEnabled_OnlyFalse(server) ==
    ~(server.t = "obj" /\ server.enabled = JBool(FALSE))

\* isEnabled, lines 35-47 (server?.enabled of null is undefined)
isEnabled(server) ==
    LET v == IF server.t = "obj" THEN server.enabled ELSE JUndef IN
    CASE v.t \in {"undef", "null"}                  -> TRUE
      [] v.t = "bool" /\ v.b = FALSE                -> FALSE
      [] v.t = "str" /\ ToLowerCase(v.s) = sFalse   -> FALSE
      [] v.t = "num" /\ v.n = 0                     -> FALSE
      [] OTHER                                      -> TRUE

\* pickHostPort, lines 111-116
pickHostPort(server) ==
    [host |-> JOr(JOr(server.ip, server.host),
                  IF Truthy(server.port) THEN JStr(sLoopback) ELSE JUndef),
     port |-> IF server.port # JUndef THEN ToNumber(server.port) ELSE JUndef]

\* typeof server.url === 'string' && server.url.startsWith('http')
hasUrl(server) == server.url.t = "str" /\ StartsWith(server.url.s, sHttp)

\* !!h && Number.isFinite(p) && p > 0
hasHostPort(server) ==
    LET hp == pickHostPort(server) IN
    Truthy(hp.host) /\ FinitePositive(hp.port)

\* shouldSkipPoll, lines 49-61
shouldSkipPoll(server) ==
    IF JOr(server.ip, server.host) = JStr(sWildcard) THEN TRUE
    ELSE ~(hasUrl(server) \/ hasHostPort(server))

\* Mutant of chooseChecker: host and port are preferred to the URL.
chooseChecker_TcpFirst(server) ==
    IF hasHostPort(server) THEN "tcp"
    ELSE IF hasUrl(server) THEN "http"
    ELSE "none"

\* chooseChecker, lines 341-351
chooseChecker(server) ==
    IF hasUrl(server) THEN "http"
    ELSE IF hasHostPort(server) THEN "tcp"
    ELSE "none"

\* Number(server.timeoutMs) > 0 ? Number(server.timeoutMs) : DEFAULT_TIMEOUT_MS
pickTimeoutMs(server) ==
    IF FinitePositive(ToNumber(server.timeoutMs))
    THEN ToNumber(server.timeoutMs).n
    ELSE DEFAULT_TIMEOUT_MS

\* runCheck, lines 353-383: what it does with a target.  kind is the branch
\* taken: "disabled" and "skipped" return at once, "http" and "tcp" start a
\* checker, "none" is the final return.
runCheck(server) ==
    LET timeoutMs == pickTimeoutMs(server) IN
    IF ~isEnabled(server) THEN [kind |-> "disabled", timeoutMs |-> timeoutMs]
    ELSE IF shouldSkipPoll(server) THEN [kind |-> "skipped", timeoutMs |-> timeoutMs]
    ELSE IF chooseChecker(server) = "http"
         THEN [kind |-> "http", timeoutMs |-> timeoutMs, url |-> server.url]
    ELSE IF chooseChecker(server) = "tcp"
         THEN [kind |-> "tcp", timeoutMs |-> timeoutMs,
               host |-> pickHostPort(server).host,
               port |-> pickHostPort(server).port]
    ELSE [kind |-> "none", timeoutMs |-> timeoutMs]

(***************************************************************************)
(* mapWithConcurrency (lines 120-138).                                     *)
(*                                                                         *)
(* Arrays are sequences; the JavaScript index idx is position idx + 1.     *)
(* A pool record holds the locals of one call:                             *)
(*   items, limit   the arguments                                          *)
(*   i              the shared cursor                                      *)
(*   results        new Array(items.length): holes until assigned          *)
(*   workers        one entry per async worker: pc and the claimed idx     *)
(*   calls          the promise of mapper(items[idx], idx) per index       *)
(*   invoked        how many times the mapper was called per index         *)
(*   spawned        workers created so far by the synchronous .map         *)
(*   returned       the promise of mapWithConcurrency has resolved         *)
(***************************************************************************)
Hole == [t |-> "hole"]

NotCalled == [st |-> "none"]

Pending(item, idx) == [st |-> "pending", item |-> item, idx |-> idx]

\* results[idx] = { __error: err }, line 131
ErrorMarker(err) == [t |-> "errmark", err |-> err]

\* Mutant of NumWorkers: one worker per item, whatever the limit.
NumWorkers_PerItem(limit, n) == n

\* Math.min(limit, items.length), line 124
NumWorkers(limit, n) == IF limit < n THEN limit ELSE n

PoolNew(items, limit) ==
    [items    |-> items,
     limit    |-> limit,
     i        |-> 0,
     results  |-> [k \in 1..Len(items) |-> Hole],
     workers  |-> [w \in 1..NumWorkers(limit, Len(items)) |->
                      [pc |-> "new", idx |-> -1]],
     calls    |-> [k \in 1..Len(items) |-> NotCalled],
     invoked  |-> [k \in 1..Len(items) |-> 0],
     spawned  |-> 0,
     returned |-> FALSE]

\* Mutant of StoreResult: results.push(v), the order of completion.
StoreResult_Push(results, idx, v) ==
    LET free == {k \in DOMAIN results : results[k] = Hole} IN
    IF free = {} THEN results
    ELSE [results EXCEPT ![CHOOSE k \in free : \A j \in free : k <= j] = v]

\* results[idx] = ..., lines 129 and 131
StoreResult(results, idx, v) == [results EXCEPT ![idx + 1] = v]

\* One turn of the worker loop, lines 126-129: claim the cursor, return when
\* it is past the end, otherwise call the mapper and suspend on its promise.
WorkerClaim(p, w) ==
    LET idx == p.i IN
    IF idx >= Len(p.items)
    THEN [p EXCEPT !.i = idx + 1,
                   !.workers[w] = [pc |-> "done", idx |-> -1]]
    ELSE [p EXCEPT !.i = idx + 1,
                   !.workers[w] = [pc |-> "await", idx |-> idx],
                   !.calls[idx + 1] = Pending(p.items[idx + 1], idx),
                   !.invoked[idx + 1] = @ + 1]

\* Mutant of PoolSpawn: every worker starts from its own copy of the cursor.
PoolSpawn_OwnCursor(p) ==
    LET w == p.spawned + 1 IN
    [WorkerClaim([p EXCEPT !.i = 0], w) EXCEPT !.spawned = w]

\* The synchronous .map of line 124 starts the next worker, which runs to its
\* first await.
PoolSpawn(p) ==
    LET w == p.spawned + 1 IN
    [WorkerClaim(p, w) EXCEPT !.spawned = w]

PoolCanSpawn(p) == p.spawned < Len(p.workers)

\* The promise of mapper(items[idx], idx) settles: fulfilled with a value or
\* rejected with an error.
PoolSettle(p, idx, outcome) ==
    [p EXCEPT !.calls[idx + 1] = outcome]

PoolCanSettle(p, idx) ==
    /\ idx + 1 \in DOMAIN p.calls
    /\ p.calls[idx + 1].st = "pending"

\* The worker resumes after its await, lines 129-132, and loops.
PoolResume(p, w) ==
    LET idx  == p.workers[w].idx
        call == p.calls[idx + 1]
        v    == IF call.st = "ok" THEN call.val ELSE ErrorMarker(call.err)
        q    == [p EXCEPT !.results = StoreResult(p.results, idx, v)]
    IN  WorkerClaim(q, w)

PoolCanResume(p, w) ==
    /\ w \in DOMAIN p.workers
    /\ p.spawned = Len(p.workers)
    /\ p.workers[w].pc = "await"
    /\ p.calls[p.workers[w].idx + 1].st \in {"ok", "err"}

\* await Promise.all(workers); return results, lines 136-137
\* Mutant of PoolCanReturn: Promise.race, the first worker to end is enough.
PoolCanReturn_AnyWorker(p) ==
    /\ ~p.returned
    /\ p.spawned = Len(p.workers)
    /\ \/ p.workers = <<>>
       \/ \E w \in DOMAIN p.workers : p.workers[w].pc = "done"

PoolCanReturn(p) ==
    /\ ~p.returned
    /\ p.spawned = Len(p.workers)
    /\ \A w \in DOMAIN p.workers : p.workers[w].pc = "done"

PoolReturn(p) == [p EXCEPT !.returned = TRUE]

\* Mapper calls started and not yet settled.
InFlight(p) == {k \in DOMAIN p.calls : p.calls[k].st = "pending"}

(***************************************************************************)
(* Check Results and what the checkers can hand to runCheck's caller.      *)
(* The checkers are modelled step by step further down (SpecChecker); a    *)
(* tick only needs the set of ways each of them can settle.                *)
(***************************************************************************)
Fulfilled(v) == [st |-> "ok", val |-> v]

Rejected(e) == [st |-> "err", err |-> e]

\* { online, rttMs: Date.now() - start }, lines 166-169 and 187-193
CheckResult(online) == [online |-> online, rttMs |-> 0]

\* socket.connect(port, host), line 160, throws ERR_SOCKET_BAD_PORT for a port
\* above 65535
portInRange(port) == port.n <= 65535

\* checkHttp, lines 172-195: it catches everything and returns a result.
checkHttpOutcomes == {Fulfilled(CheckResult(b)) : b \in BOOLEAN}

\* checkTcp, lines 144-170: resolves with the socket's verdict, or rejects
\* when withTimeout's timer wins the race (line 70) or connect throws.
checkTcpOutcomes(port) ==
    IF ~portInRange(port)
    THEN {Rejected("ERR_SOCKET_BAD_PORT")}
    ELSE {Fulfilled(CheckResult(b)) : b \in BOOLEAN}
             \cup {Rejected("tcp-check-timeout")}

\* The ways the promise of runCheck(server) settles, lines 353-383.
runCheckOutcomes(server) ==
    LET plan == runCheck(server) IN
    CASE plan.kind = "disabled" -> {Fulfilled([online |-> FALSE, disabled |-> TRUE])}
      [] plan.kind = "skipped"  -> {Fulfilled([online |-> FALSE, skipped |-> TRUE])}
      [] plan.kind = "http"     -> checkHttpOutcomes
      [] plan.kind = "tcp"      -> checkTcpOutcomes(plan.port)
      [] OTHER                  -> {Fulfilled([online |-> FALSE])}

(***************************************************************************)
(* The merge of main's mapper, lines 434-460, and the snapshot built from  *)
(* the pool's results, lines 462-472.  A status object is a function from  *)
(* field names to values, wrapped so it can sit beside null in an array.   *)
(***************************************************************************)
StatusObj(f) == [t |-> "rec", f |-> f]

Without(f, key) == [k \in DOMAIN f \ {key} |-> f[k]]

EmptyMap == [k \in {} |-> 0]

\* makeStatusIndex(normalizeStatusArray(raw)), lines 96-109: anything but an
\* array is the empty list; an item is indexed when its id is a string.
RECURSIVE makeStatusIndex(_)
makeStatusIndex(statusArr) ==
    IF statusArr = <<>> THEN EmptyMap
    ELSE LET item == statusArr[Len(statusArr)]
             rest == makeStatusIndex(SubSeq(statusArr, 1, Len(statusArr) - 1))
         IN  IF item.t = "rec" /\ "id" \in DOMAIN item.f /\ item.f.id.t = "str"
             THEN (item.f.id.s :> item.f) @@ rest
             ELSE rest

normalizeStatusArray(maybe) == IF maybe.k = "array" THEN maybe.arr ELSE <<>>

\* statusIndex.get(id) || { id }, line 436
baseOf(statusIndex, id) ==
    IF id.t = "str" /\ id.s \in DOMAIN statusIndex
    THEN statusIndex[id.s]
    ELSE [id |-> id]

\* Mutant of mergeNext: the two delete statements are missing.
mergeNext_NoDelete(base, id, result, checkedAt) ==
    LET next0 == [id |-> id, online |-> result.online,
                  lastCheckAt |-> checkedAt] @@ base
        next1 == IF "players" \in DOMAIN result
                 THEN ("players" :> result.players) @@ next0
                 ELSE next0
    IN  IF "version" \in DOMAIN result
        THEN ("version" :> result.version) @@ next1
        ELSE next1

\* lines 446-459
mergeNext(base, id, result, checkedAt) ==
    LET next0 == [id |-> id, online |-> result.online,
                  lastCheckAt |-> checkedAt] @@ base
        next1 == IF "players" \in DOMAIN result
                 THEN ("players" :> result.players) @@ next0
                 ELSE Without(next0, "players")
    IN  IF "version" \in DOMAIN result
        THEN ("version" :> result.version) @@ next1
        ELSE Without(next1, "version")

\* typeof id !== 'string' || !id.trim(), line 439
invalidId(id) == id.t # "str" \/ IsBlank(id.s)

\* The ways one call of main's mapper settles, lines 434-460.
mapperOutcomes(server, statusIndex, checkedAt) ==
    IF server.t # "obj" THEN {Rejected("TypeError")}
    ELSE IF invalidId(server.id) THEN {Fulfilled(JNull)}
    ELSE { IF o.st = "ok"
           THEN Fulfilled(StatusObj(mergeNext(baseOf(statusIndex, server.id),
                                              server.id, o.val, checkedAt)))
           ELSE o
           : o \in runCheckOutcomes(server) }

\* if (!item || !item.id) continue, line 464
skipsItem(item) ==
    \/ item.t # "rec"
    \/ "id" \notin DOMAIN item.f
    \/ ~Truthy(item.f.id)

\* lines 467-471
snapshotRecord(f) ==
    LET r0 == [online |-> f.online, lastCheckAt |-> f.lastCheckAt]
        r1 == IF "players" \in DOMAIN f THEN ("players" :> f.players) @@ r0 ELSE r0
    IN  IF "version" \in DOMAIN f THEN ("version" :> f.version) @@ r1 ELSE r1

\* lines 462-472: later items overwrite earlier ones with the same id.
RECURSIVE buildNextStatus(_)
buildNextStatus(results) ==
    IF results = <<>> THEN EmptyMap
    ELSE LET item == results[Len(results)]
             rest == buildNextStatus(SubSeq(results, 1, Len(results) - 1))
         IN  IF skipsItem(item) THEN rest
             ELSE (item.f.id.s :> snapshotRecord(item.f)) @@ rest

(***************************************************************************)
(* The files.  A file's content is what a reader would get: a JSON value,  *)
(* unparsable bytes, or the empty file an open with O_TRUNC leaves.  A     *)
(* path names an inode (0: no such file), so a descriptor opened before a  *)
(* rename still writes to the renamed file.                                *)
(*                                                                         *)
(* JSON.stringify followed by JSON.parse returns the same value for the    *)
(* values a snapshot holds (booleans, numbers, strings, objects without    *)
(* undefined members), so a file holds the value itself.                   *)
(***************************************************************************)
FileMissing == [k |-> "missing"]

FileGarbage == [k |-> "garbage"]

FileEmpty == [k |-> "empty"]

FileJson(v) == [k |-> "json", v |-> v]

JsonArray(arr) == [k |-> "array", arr |-> arr]

JsonObject(map) == [k |-> "object", map |-> map]

JsonNull == [k |-> "null"]

\* Mutant of readJsonIfExists: a file that does not parse gives the fallback.
readJsonIfExists_Swallow(file, fallbackValue) ==
    IF file.k = "json" THEN Fulfilled(file.v) ELSE Fulfilled(fallbackValue)

\* readJsonIfExists, lines 75-84: the fallback when the file is missing, the
\* parsed value, or an exception.
readJsonIfExists(file, fallbackValue) ==
    CASE file.k = "missing" -> Fulfilled(fallbackValue)
      [] file.k = "json"    -> Fulfilled(file.v)
      [] OTHER              -> Rejected("SyntaxError")

FileAt(f, inode) == IF inode = 0 THEN FileMissing ELSE f.inodes[inode]

\* open(tmpPath, 'w') of fsp.writeFile, line 92: create, or truncate what is
\* there.  Returns the file system and the inode the descriptor refers to.
fsOpenTruncate(f, name) ==
    IF f.tmp[name] = 0
    THEN [fs |-> [f EXCEPT !.inodes = Append(@, FileEmpty),
                           !.tmp[name] = Len(f.inodes) + 1],
          fd |-> Len(f.inodes) + 1]
    ELSE [fs |-> [f EXCEPT !.inodes[f.tmp[name]] = FileEmpty],
          fd |-> f.tmp[name]]

\* the write of fsp.writeFile through the open descriptor, line 92
fsWrite(f, fd, content) == [f EXCEPT !.inodes[fd] = content]

\* fsp.rename(tmpPath, filePath), line 93
fsRename(f, name) == [f EXCEPT !.dest = f.tmp[name], !.tmp[name] = 0]

(***************************************************************************)
(* 32-bit integers.  JavaScript's |, & and << work on int32; the values    *)
(* here stay inside -2^31 .. 2^31 - 1 and every step avoids leaving it.    *)
(***************************************************************************)
INT32_MAX == 2147483647

INT32_MIN == -2147483647 - 1

TWO30 == 1073741824

\* x << 1 on int32
Shl1(x) ==
    IF x >= TWO30 THEN ((x - TWO30) * 2) + INT32_MIN
    ELSE IF x < -TWO30 THEN (((x + TWO30) * 2) + INT32_MAX) + 1
    ELSE x * 2

RECURSIVE ShlN(_, _)
ShlN(x, n) == IF n = 0 THEN x ELSE ShlN(Shl1(x), n - 1)

\* x << n: the shift count is taken modulo 32
Shl32(x, n) == ShlN(x, n % 32)

\* the low 31 bits of an int32, as a natural number
Low31(x) == IF x < 0 THEN (x + INT32_MAX) + 1 ELSE x

RECURSIVE Or31(_, _)
Or31(a, b) ==
    IF a = 0 THEN b
    ELSE IF b = 0 THEN a
    ELSE (IF a % 2 = 1 \/ b % 2 = 1 THEN 1 ELSE 0) + 2 * Or31(a \div 2, b \div 2)

\* a | b on int32
BitOr32(a, b) ==
    LET low == Or31(Low31(a), Low31(b)) IN
    IF a < 0 \/ b < 0 THEN (low - INT32_MAX) - 1 ELSE low

(***************************************************************************)
(* The varint codec and the status response, lines 208-235 and 290-331.    *)
(* A buffer is the sequence of its bytes.                                  *)
(***************************************************************************)
\* An unsigned 32-bit number, held as its two 16-bit halves: the numbers
\* from 2^31 on do not fit the integers of the checker.
Uint32(hi, lo) == [hi |-> hi, lo |-> lo]

\* value >>> 0 for 0 <= value < 2^31
ToUint32(value) == Uint32(value \div 65536, value % 65536)

\* v >>> 7
Ushr7(v) == Uint32(v.hi \div 128, (v.lo \div 128) + ((v.hi % 128) * 512))

\* the loop of writeVarInt, lines 211-218
RECURSIVE writeVarIntLoop(_)
writeVarIntLoop(v) ==
    IF v.hi = 0 /\ v.lo < 128 THEN <<v.lo>>
    ELSE <<(v.lo % 128) + 128>> \o writeVarIntLoop(Ushr7(v))

\* writeVarInt, lines 208-219, for 0 <= value < 2^31
writeVarInt(value) == writeVarIntLoop(ToUint32(value))

VarInt(value, size) == [t |-> "varint", value |-> value, size |-> size]

\* the do-while of readVarInt, lines 226-232
RECURSIVE readVarIntLoop(_, _, _, _)
readVarIntLoop(buf, offset, numRead, result) ==
    IF offset + numRead >= Len(buf) THEN JNull
    ELSE LET byte == buf[offset + numRead + 1]
             r    == BitOr32(result, Shl32(byte % 128, 7 * numRead))
             n    == numRead + 1
         IN  IF n > 5 THEN JNull
             ELSE IF byte >= 128 THEN readVarIntLoop(buf, offset, n, r)
             ELSE VarInt(r, n)

\* readVarInt, lines 221-235
readVarInt(buf, offset) == readVarIntLoop(buf, offset, 0, 0)

\* buf.slice(start, start + count) for 0 <= start: the end is clamped to the
\* buffer, and a negative end counts from the end of the buffer.
sliceCount(buf, start, count) ==
    LET len  == Len(buf)
        from == IF start > len THEN len ELSE start
        to   == IF count >= len - start THEN len
                ELSE IF start + count < 0
                     THEN (IF len + (start + count) < 0 THEN 0
                           ELSE len + (start + count))
                     ELSE start + count
    IN  IF to <= from THEN <<>> ELSE SubSeq(buf, from + 1, to)

\* JSON documents a peer may send, as their UTF-8 bytes.
docFull ==
    <<123, 34, 112, 108, 97, 121, 101, 114, 115, 34, 58, 123, 34, 111, 110,
      108, 105, 110, 101, 34, 58, 51, 44, 34, 109, 97, 120, 34, 58, 50, 48,
      125, 44, 34, 118, 101, 114, 115, 105, 111, 110, 34, 58, 123, 34, 110,
      97, 109, 101, 34, 58, 34, 49, 46, 50, 48, 34, 125, 125>>

docNoMax ==
    <<123, 34, 112, 108, 97, 121, 101, 114, 115, 34, 58, 123, 34, 111, 110,
      108, 105, 110, 101, 34, 58, 51, 125, 125>>

docEmpty == <<123, 125>>

docSeventeen == <<49, 55>>

docOne == <<49>>

JsonUndef == [k |-> "undefined"]

JsonNumber(n) == [k |-> "number", n |-> n]

JsonString(str) == [k |-> "string", str |-> str]

\* JSON.parse, line 313, on the texts above: the parsed value, or an
\* exception for every other text (a cut-off object, the empty text).
jsonParse(text) ==
    CASE text = docFull ->
           Fulfilled(JsonObject(
               [players |-> JsonObject([online |-> JsonNumber(3),
                                        max |-> JsonNumber(20)]),
                version |-> JsonObject([name |-> JsonString("1.20")])]))
      [] text = docNoMax ->
           Fulfilled(JsonObject(
               [players |-> JsonObject([online |-> JsonNumber(3)])]))
      [] text = docEmpty -> Fulfilled(JsonObject(EmptyMap))
      [] text = docSeventeen -> Fulfilled(JsonNumber(17))
      [] text = docOne -> Fulfilled(JsonNumber(1))
      [] OTHER -> Rejected("SyntaxError")

\* v?.key
member(v, key) ==
    IF v.k = "object" /\ key \in DOMAIN v.map THEN v.map[key] ELSE JsonUndef

\* lines 315-327: the result built from the parsed document
statusOf(parsed) ==
    LET playersOnline == member(member(parsed, "players"), "online")
        playersMax    == member(member(parsed, "players"), "max")
        versionName   == member(member(parsed, "version"), "name")
        out0 == [online |-> TRUE]
        out1 == IF playersOnline.k = "number" /\ playersMax.k = "number"
                THEN ("players" :> [online |-> playersOnline.n,
                                    max |-> playersMax.n]) @@ out0
                ELSE out0
    IN  IF versionName.k = "string"
        THEN ("version" :> versionName.str) @@ out1
        ELSE out1

Offline == [online |-> FALSE]

\* The 'close' handler of checkMinecraft, lines 290-331: the result handed
\* to finish.
parseStatusResponse(buf) ==
    LET lenInfo == readVarInt(buf, 0) IN
    IF lenInfo = JNull THEN Offline
    ELSE
    LET packetIdInfo == readVarInt(buf, lenInfo.size) IN
    IF packetIdInfo = JNull THEN Offline
    ELSE IF packetIdInfo.value # 0 THEN Offline
    ELSE
    LET offset2     == lenInfo.size + packetIdInfo.size
        jsonLenInfo == readVarInt(buf, offset2) IN
    IF jsonLenInfo = JNull THEN Offline
    ELSE
    LET jsonStr == sliceCount(buf, offset2 + jsonLenInfo.size, jsonLenInfo.value)
        parsed  == jsonParse(jsonStr)
    IN  IF parsed.st = "err" THEN Offline ELSE statusOf(parsed.val)

\* A response packet as the protocol frames it (lines 205-206):
\* varint(length) || varint(type) || varint(length of text) || text
mcPacket(typeId, text) ==
    LET payload == writeVarInt(typeId) \o writeVarInt(Len(text)) \o text IN
    writeVarInt(Len(payload)) \o payload

(***************************************************************************)
(* The checkers, lines 144-195 and 261-336, with withTimeout, lines 67-73. *)
(*                                                                         *)
(* ck holds one checker call:                                              *)
(*   kind     "tcp", "http" or "mc"                                        *)
(*   portOk   socket.connect accepts the port                              *)
(*   resp     the bytes the Minecraft peer will send                       *)
(*   pc       "new" before the call, "running" after its synchronous part  *)
(*   sock     the socket or the fetch request: "none", "connecting",       *)
(*            "open", "destroyed" (tcp, mc); "none", "inflight",           *)
(*            "responded", "failed" (http)                                 *)
(*   stimer   the socket's idle timer (socket.setTimeout)                  *)
(*   guard    the timer of withTimeout                                     *)
(*   inner    the promise handed to withTimeout                            *)
(*   ret      the promise the checker returned                             *)
(*   dones    calls of done / finish                                       *)
(*   closeEmitted   the socket's 'close' event was delivered               *)
(*   buf      Buffer.concat(chunks)                                        *)
(*   nchunks  data events delivered                                        *)
(*   status   the status code of the HTTP response (0: none yet)           *)
(*                                                                         *)
(* An event handler and the promise reactions it triggers (the race, the   *)
(* finally, the checker's continuation) run in one step: reactions are     *)
(* microtasks and no timer or socket event comes between them.  Timers are *)
(* not timed: the socket's idle timer restarts on activity, so either of   *)
(* the two timers may fire first.                                          *)
(***************************************************************************)
PromisePending == [st |-> "pending"]

CkNew(kind, portOk, resp) ==
    [kind |-> kind, portOk |-> portOk, resp |-> resp, pc |-> "new",
     sock |-> "none", stimer |-> "off", guard |-> "off",
     inner |-> PromisePending, ret |-> PromisePending, dones |-> 0,
     closeEmitted |-> FALSE, buf |-> <<>>, nchunks |-> 0, status |-> 0]

\* Mutant of statusOnline: the upper bound is missing.
statusOnline_NoUpperBound(status) == status >= 200

\* res.status >= 200 && res.status < 400, line 185
statusOnline(status) == status >= 200 /\ status < 400

\* What the checker does with the settled race of withTimeout:
\* checkTcp awaits it and wraps the value (lines 146-169), checkHttp catches
\* a rejection (lines 174-194), checkMinecraft returns it as it is (line 264).
afterRace(kind, raced) ==
    CASE kind = "tcp"  -> IF raced.st = "ok"
                          THEN Fulfilled(CheckResult(raced.val))
                          ELSE raced
      [] kind = "http" -> IF raced.st = "ok"
                          THEN Fulfilled(CheckResult(statusOnline(raced.val)))
                          ELSE Fulfilled(CheckResult(FALSE))
      [] OTHER         -> raced

\* label of the timer's rejection, lines 163, 181 and 334
timeoutLabel(kind) ==
    CASE kind = "tcp"  -> "tcp-check-timeout"
      [] kind = "http" -> "http-timeout"
      [] OTHER         -> "minecraft-timeout"

\* The promise handed to withTimeout settles (resolve / reject of the
\* executor, or fetch): only the first settlement counts; if the race is
\* still open it settles with it, finally clears the timer (line 72) and
\* the checker continues.
settleInner(c, outcome) ==
    IF c.inner.st # "pending" THEN c
    ELSE IF c.ret.st # "pending" THEN [c EXCEPT !.inner = outcome]
    ELSE [c EXCEPT !.inner = outcome,
                   !.guard = "cleared",
                   !.ret = afterRace(c.kind, outcome)]

\* Mutant of guardFires: the timer's callback rejects nothing.
guardFires_NoReject(c) == [c EXCEPT !.guard = "fired"]

\* setTimeout(() => reject(new Error(label)), ms) fires, line 70
guardFires(c) ==
    [c EXCEPT !.guard = "fired",
              !.ret = afterRace(c.kind, Rejected(timeoutLabel(c.kind)))]

\* socket.destroy(): the descriptor is released and the idle timer stopped
destroySocket(c) == [c EXCEPT !.sock = "destroyed", !.stimer = "off"]

\* done(ok), lines 150-153, and finish(result), lines 269-275
finish(c, value) ==
    settleInner([destroySocket(c) EXCEPT !.dones = c.dones + 1],
                Fulfilled(value))

\* The synchronous part of a checker: the socket is created, its handlers
\* and idle timer set and connect called (lines 148-160 and 266-289), or
\* fetch is called (line 176); then withTimeout arms its timer (line 70).
\* connect throws inside the executor when the port is out of range.
ckStart(c) ==
    IF c.kind = "http"
    THEN [c EXCEPT !.pc = "running", !.sock = "inflight", !.guard = "armed"]
    ELSE IF ~c.portOk
    THEN settleInner([c EXCEPT !.pc = "running", !.guard = "armed"],
                     Rejected("ERR_SOCKET_BAD_PORT"))
    ELSE [c EXCEPT !.pc = "running", !.sock = "connecting",
                   !.stimer = "armed", !.guard = "armed"]

\* the value done / finish gets from each socket event
onConnect(c) ==
    IF c.kind = "tcp" THEN finish([c EXCEPT !.sock = "open"], TRUE)
    ELSE [c EXCEPT !.sock = "open"]

onError(c) ==
    finish(destroySocket(c), IF c.kind = "tcp" THEN FALSE ELSE Offline)

onSocketTimeout(c) ==
    finish([c EXCEPT !.stimer = "fired"], IF c.kind = "tcp" THEN FALSE ELSE Offline)

\* socket.on('close'), lines 290-331
onClose(c) ==
    finish([c EXCEPT !.closeEmitted = TRUE], parseStatusResponse(c.buf))

\* Whether the socket or request of the call is still open.
StillOpen(c) == c.sock \in {"connecting", "open", "inflight"}

(***************************************************************************)
(* Idle values: what a specification leaves the other parts at.            *)
(***************************************************************************)
TickIdle ==
    /\ ticks = <<>>
    /\ fs = [config |-> FileMissing, inodes |-> <<>>, dest |-> 0, tmp |-> <<>>]
    /\ clock = 0
    /\ exitCode = 0

PoolIdle == pool = PoolNew(<<>>, 1) /\ pOrder = <<>>

CkIdle == ck = CkNew("none", TRUE, <<>>)

MgNew(prior, id, result, checkedAt) ==
    [pc |-> "new", round |-> 1, prior |-> prior, id |-> id, result |-> result,
     checkedAt |-> checkedAt, next |-> EmptyMap, snap |-> EmptyMap,
     first |-> EmptyMap]

MgIdle == mg = MgNew(FileMissing, JUndef, [online |-> FALSE], 0)

RtNew(server) ==
    [pc |-> "new", server |-> server, dialed |-> "none",
     ret |-> PromisePending, snap |-> EmptyMap]

RtIdle == rt = RtNew(JNull)

ViNew(v) == [pc |-> "new", v |-> v, bytes |-> <<>>, out |-> JNull]

ViIdle == vi = ViNew(Uint32(0, 0))

LvIdle == cks = <<>>

(***************************************************************************)
(* SpecPool: one call of mapWithConcurrency with an arbitrary mapper.  The *)
(* mapper's value names the arguments it was called with, so a result can  *)
(* be traced to its call.                                                  *)
(***************************************************************************)
ItemSet == {"x", "y"}

MapperValue(call) == [t |-> "val", item |-> call.item, idx |-> call.idx]

MapperOutcomes(call) ==
    { [st |-> "ok", val |-> MapperValue(call)],
      [st |-> "err", err |-> MapperValue(call)] }

PInit ==
    /\ \E items \in SeqsUpTo(ItemSet, MaxItems), limit \in 1..MaxLimit :
           pool = PoolNew(items, limit)
    /\ pOrder = <<>>
    /\ TickIdle
    /\ CkIdle
    /\ MgIdle
    /\ RtIdle
    /\ ViIdle
    /\ LvIdle

PSpawn ==
    /\ PoolCanSpawn(pool)
    /\ pool' = PoolSpawn(pool)
    /\ UNCHANGED <<pOrder, tickVars, ckVars, mgVars, rtVars, viVars, lvVars>>

PSettle ==
    \E idx \in 0..(Len(pool.items) - 1) :
        /\ PoolCanSettle(pool, idx)
        /\ \E o \in MapperOutcomes(pool.calls[idx + 1]) :
               pool' = PoolSettle(pool, idx, o)
        /\ pOrder' = Append(pOrder, idx)
        /\ UNCHANGED <<tickVars, ckVars, mgVars, rtVars, viVars, lvVars>>

PResume ==
    \E w \in DOMAIN pool.workers :
        /\ PoolCanResume(pool, w)
        /\ pool' = PoolResume(pool, w)
        /\ UNCHANGED <<pOrder, tickVars, ckVars, mgVars, rtVars, viVars, lvVars>>

PReturn ==
    /\ PoolCanReturn(pool)
    /\ pool' = PoolReturn(pool)
    /\ UNCHANGED <<pOrder, tickVars, ckVars, mgVars, rtVars, viVars, lvVars>>

PNext == PSpawn \/ PSettle \/ PResume \/ PReturn

SpecPool == PInit /\ [][PNext]_vars

(***************************************************************************)
(* One execution of main(), lines 412-488.  pc is the await it is          *)
(* suspended on:                                                           *)
(*   readConfig  line 413      readStatus  line 428     pool  line 434     *)
(*   open, write line 92       rename      line 93                         *)
(*   done: returned            failed: rejected                            *)
(***************************************************************************)
TickNew ==
    [pc |-> "readConfig", config |-> <<>>, statusIndex |-> EmptyMap,
     checkedAt |-> 0, pool |-> PoolNew(<<>>, CONCURRENCY),
     nextStatus |-> EmptyMap, wrote |-> FALSE, tmp |-> 0, fd |-> 0,
     statusFile |-> [k |-> "unread"]]

\* .catch(err => { process.exitCode = 1 }), lines 407-410 and 490-493
TickReject(t) ==
    /\ ticks' = [ticks EXCEPT ![t].pc = "failed"]
    /\ exitCode' = 1

RECURSIVE PoolSpawnAll(_)
PoolSpawnAll(p) == IF PoolCanSpawn(p) THEN PoolSpawnAll(PoolSpawn(p)) ELSE p

\* lines 413-428
TReadConfig(t) ==
    /\ ticks[t].pc = "readConfig"
    /\ LET r == readJsonIfExists(fs.config, JsonNull) IN
       IF r.st = "err" THEN TickReject(t)
       ELSE IF r.val.k # "array"
       THEN /\ ticks' = [ticks EXCEPT ![t].pc = "done"]
            /\ exitCode' = 2
       ELSE /\ ticks' = [ticks EXCEPT ![t].pc = "readStatus",
                                      ![t].config = r.val.arr]
            /\ UNCHANGED exitCode
    /\ UNCHANGED <<fs, clock, poolVars, ckVars, mgVars, rtVars, viVars, lvVars>>

\* lines 428-434: the prior snapshot is indexed, the time is taken and
\* mapWithConcurrency starts its workers, each running to its first await.
TReadStatus(t) ==
    /\ ticks[t].pc = "readStatus"
    /\ LET r == readJsonIfExists(FileAt(fs, fs.dest), JsonArray(<<>>)) IN
       IF r.st = "err"
       THEN /\ ticks' = [ticks EXCEPT ![t].pc = "failed",
                                      ![t].statusFile = FileAt(fs, fs.dest)]
            /\ exitCode' = 1
       ELSE /\ ticks' = [ticks EXCEPT
                   ![t].pc = "pool",
                   ![t].statusFile = FileAt(fs, fs.dest),
                   ![t].statusIndex = makeStatusIndex(normalizeStatusArray(r.val)),
                   ![t].checkedAt = clock,
                   ![t].pool = PoolSpawnAll(PoolNew(ticks[t].config, CONCURRENCY))]
            /\ UNCHANGED exitCode
    /\ UNCHANGED <<fs, clock, poolVars, ckVars, mgVars, rtVars, viVars, lvVars>>

\* The mapper call of one target settles and the worker awaiting it resumes
\* in the microtask that follows (lines 129-132), before any other event.
TSettle(t) ==
    /\ ticks[t].pc = "pool"
    /\ \E w \in DOMAIN ticks[t].pool.workers :
          LET idx == ticks[t].pool.workers[w].idx IN
          /\ PoolCanSettle(ticks[t].pool, idx)
          /\ \E o \in mapperOutcomes(ticks[t].config[idx + 1],
                                     ticks[t].statusIndex, ticks[t].checkedAt) :
                ticks' = [ticks EXCEPT
                    ![t].pool = PoolResume(PoolSettle(@, idx, o), w)]
    /\ UNCHANGED <<fs, clock, exitCode, poolVars, ckVars, mgVars, rtVars, viVars, lvVars>>

\* lines 434-476 and 86-92: the pool returns, the snapshot is built and
\* atomicWriteJson names its temp file and starts writeFile.
TBuild(t) ==
    /\ ticks[t].pc = "pool"
    /\ PoolCanReturn(ticks[t].pool)
    /\ ticks' = [ticks EXCEPT
            ![t].pc = "open",
            ![t].pool = PoolReturn(@),
            ![t].nextStatus = buildNextStatus(ticks[t].pool.results),
            ![t].tmp = clock]
    /\ UNCHANGED <<fs, clock, exitCode, poolVars, ckVars, mgVars, rtVars, viVars, lvVars>>

TOpen(t) ==
    /\ ticks[t].pc = "open"
    /\ LET o == fsOpenTruncate(fs, ticks[t].tmp) IN
       /\ fs' = o.fs
       /\ ticks' = [ticks EXCEPT ![t].pc = "write", ![t].fd = o.fd]
    /\ UNCHANGED <<clock, exitCode, poolVars, ckVars, mgVars, rtVars, viVars, lvVars>>

\* the descriptor is closed after the write; closing changes no content
TWrite(t) ==
    /\ ticks[t].pc = "write"
    /\ fs' = fsWrite(fs, ticks[t].fd, FileJson(JsonObject(ticks[t].nextStatus)))
    /\ ticks' = [ticks EXCEPT ![t].pc = "rename"]
    /\ UNCHANGED <<clock, exitCode, poolVars, ckVars, mgVars, rtVars, viVars, lvVars>>

\* line 93: ENOENT when the temp path is gone
TRename(t) ==
    /\ ticks[t].pc = "rename"
    /\ IF fs.tmp[ticks[t].tmp] = 0
       THEN TickReject(t) /\ UNCHANGED fs
       ELSE /\ fs' = fsRename(fs, ticks[t].tmp)
            /\ ticks' = [ticks EXCEPT ![t].pc = "done", ![t].wrote = TRUE]
            /\ UNCHANGED exitCode
    /\ UNCHANGED <<clock, poolVars, ckVars, mgVars, rtVars, viVars, lvVars>>

ClockTick ==
    /\ clock < MaxClock
    /\ clock' = clock + 1
    /\ UNCHANGED <<ticks, fs, exitCode, poolVars, ckVars, mgVars, rtVars, viVars, lvVars>>

(***************************************************************************)
(* Spec: the process.  The script starts runOnce() at line 407 and main()  *)
(* at line 490, so two executions of main are under way from the start.    *)
(***************************************************************************)
sA == <<"a">>

sB == <<"b">>

sUrl == <<"h", "t", "t", "p", ":", "/", "/", "w">>

sIp == <<"1", "0", ".", "0", ".", "0", ".", "9">>

tHttp == Target(JStr(sA), JUndef, JStr(sUrl), JUndef, JUndef, JUndef, JUndef)

tTcp == Target(JStr(sB), JUndef, JUndef, JStr(sIp), JUndef, JNum(25565), JUndef)

tBadPort == Target(JStr(sB), JUndef, JUndef, JStr(sIp), JUndef, JNum(70000), JUndef)

tDisabled == Target(JStr(sA), JBool(FALSE), JStr(sUrl), JUndef, JUndef, JUndef, JUndef)

tBlank == Target(JStr(<<" ">>), JUndef, JStr(sUrl), JUndef, JUndef, JUndef, JUndef)

TickTargets == {tHttp, tTcp, tBadPort, tDisabled, tBlank, JNull}

players1 == [online |-> 3, max |-> 20]

priorRecord == [online |-> TRUE, lastCheckAt |-> 0, players |-> players1,
                version |-> "1.20"]

ConfigFiles ==
    {FileMissing, FileGarbage, FileJson(JsonNull), FileJson(JsonObject(EmptyMap))}
        \cup {FileJson(JsonArray(c)) : c \in SeqsUpTo(TickTargets, MaxTargets)}

\* The snapshot file before the run: none, unparsable, a snapshot as this
\* program writes it, or an array of status objects.
PriorFiles ==
    {FileMissing, FileGarbage,
     FileJson(JsonObject(sA :> priorRecord)),
     FileJson(JsonArray(<<StatusObj([id |-> JStr(sA)] @@ priorRecord)>>))}

NTICKS == 2

Init ==
    /\ PoolIdle
    /\ CkIdle
    /\ MgIdle
    /\ RtIdle
    /\ ViIdle
    /\ LvIdle
    /\ ticks = [t \in 1..NTICKS |-> TickNew]
    /\ \E c \in ConfigFiles, prior \in PriorFiles :
          fs = [config |-> c,
                inodes |-> IF prior = FileMissing THEN <<>> ELSE <<prior>>,
                dest   |-> IF prior = FileMissing THEN 0 ELSE 1,
                tmp    |-> [n \in 0..MaxClock |-> 0]]
    /\ clock = 0
    /\ exitCode = 0

Next ==
    \/ \E t \in DOMAIN ticks : TReadConfig(t)
    \/ \E t \in DOMAIN ticks : TReadStatus(t)
    \/ \E t \in DOMAIN ticks : TSettle(t)
    \/ \E t \in DOMAIN ticks : TBuild(t)
    \/ \E t \in DOMAIN ticks : TOpen(t)
    \/ \E t \in DOMAIN ticks : TWrite(t)
    \/ \E t \in DOMAIN ticks : TRename(t)
    \/ ClockTick

Spec == Init /\ [][Next]_vars

(***************************************************************************)
(* SpecChecker: one call of checkTcp, checkHttp or checkMinecraft against  *)
(* a peer that may accept, refuse, answer, stay silent or hang up.         *)
(***************************************************************************)
MaxChunks == 2      \* data events the response is delivered in

HttpStatuses == {200, 204, 301, 399, 400, 404, 500}

\* What a Minecraft peer may send before it stops.
Responses ==
    { <<>>,
      mcPacket(0, docFull),
      mcPacket(0, docNoMax),
      mcPacket(0, docEmpty),
      mcPacket(1, docFull),
      SubSeq(mcPacket(0, docFull), 1, 20),
      SubSeq(mcPacket(0, docSeventeen), 1, 4),
      mcPacket(0, <<123>>),
      <<2, 128>>,
      <<128, 128, 128, 128, 128, 1>> }

CkInit ==
    /\ ck \in {CkNew("tcp", ok, <<>>) : ok \in BOOLEAN}
                \cup {CkNew("http", TRUE, <<>>)}
                \cup {CkNew("mc", ok, r) : ok \in BOOLEAN, r \in Responses}
    /\ PoolIdle
    /\ TickIdle
    /\ MgIdle
    /\ RtIdle
    /\ ViIdle
    /\ LvIdle


CkStart ==
    /\ ck.pc = "new"
    /\ ck' = ckStart(ck)
    /\ UNCHANGED <<poolVars, tickVars, mgVars, rtVars, viVars, lvVars>>

\* 'connect'
CkConnect ==
    /\ ck.kind \in {"tcp", "mc"}
    /\ ck.sock = "connecting"
    /\ ck' = onConnect(ck)
    /\ UNCHANGED <<poolVars, tickVars, mgVars, rtVars, viVars, lvVars>>

\* 'error': the connection is refused or reset; the socket is destroyed
\* when the event is delivered
CkError ==
    /\ ck.kind \in {"tcp", "mc"}
    /\ ck.sock \in {"connecting", "open"}
    /\ ck' = onError(ck)
    /\ UNCHANGED <<poolVars, tickVars, mgVars, rtVars, viVars, lvVars>>

\* 'timeout' of the socket
CkSocketTimeout ==
    /\ ck.kind \in {"tcp", "mc"}
    /\ ck.stimer = "armed"
    /\ ck.sock \in {"connecting", "open"}
    /\ ck' = onSocketTimeout(ck)
    /\ UNCHANGED <<poolVars, tickVars, mgVars, rtVars, viVars, lvVars>>

\* the timer of withTimeout
CkGuard ==
    /\ ck.guard = "armed"
    /\ ck' = guardFires(ck)
    /\ UNCHANGED <<poolVars, tickVars, mgVars, rtVars, viVars, lvVars>>

\* 'data': the next bytes of the response arrive, line 289
CkData ==
    /\ ck.kind = "mc"
    /\ ck.sock = "open"
    /\ ck.nchunks < MaxChunks
    /\ Len(ck.buf) < Len(ck.resp)
    /\ \E n \in {1, 2, Len(ck.resp) - Len(ck.buf)} :
          /\ Len(ck.buf) + n <= Len(ck.resp)
          /\ ck' = [ck EXCEPT
                 !.buf = SubSeq(ck.resp, 1, Len(ck.buf) + n),
                 !.nchunks = ck.nchunks + 1]
    /\ UNCHANGED <<poolVars, tickVars, mgVars, rtVars, viVars, lvVars>>

\* the peer closes the connection: the socket ends and is destroyed
CkPeerClose ==
    /\ ck.kind = "mc"
    /\ ck.sock = "open"
    /\ ck' = destroySocket(ck)
    /\ UNCHANGED <<poolVars, tickVars, mgVars, rtVars, viVars, lvVars>>

\* 'close' is delivered once the socket is destroyed
CkClose ==
    /\ ck.kind = "mc"
    /\ ck.sock = "destroyed"
    /\ ~ck.closeEmitted
    /\ ck' = onClose(ck)
    /\ UNCHANGED <<poolVars, tickVars, mgVars, rtVars, viVars, lvVars>>

\* fetch resolves with a response
CkResponse ==
    /\ ck.kind = "http"
    /\ ck.sock = "inflight"
    /\ \E status \in HttpStatuses :
          ck' = settleInner([ck EXCEPT !.sock = "responded", !.status = status],
                            Fulfilled(status))
    /\ UNCHANGED <<poolVars, tickVars, mgVars, rtVars, viVars, lvVars>>

\* fetch rejects: a network error
CkFetchError ==
    /\ ck.kind = "http"
    /\ ck.sock = "inflight"
    /\ ck' = settleInner([ck EXCEPT !.sock = "failed"], Rejected("TypeError"))
    /\ UNCHANGED <<poolVars, tickVars, mgVars, rtVars, viVars, lvVars>>

CkNext ==
    \/ CkStart
    \/ CkConnect
    \/ CkError
    \/ CkSocketTimeout
    \/ CkGuard
    \/ CkData
    \/ CkPeerClose
    \/ CkClose
    \/ CkResponse
    \/ CkFetchError

SpecChecker == CkInit /\ [][CkNext]_vars

(***************************************************************************)
(* SpecMerge: the merge and the snapshot record of one target, lines       *)
(* 428-472, for any prior snapshot and any Check Result, and then once     *)
(* more in a second tick that reads what the first one wrote and gets the  *)
(* same Check Result.                                                      *)
(***************************************************************************)
players2 == [online |-> 0, max |-> 8]

MergeIds == {sA, sB}

\* Check Results with and without occupancy, version and markers.
MergeResults ==
    LET base == {[online |-> b] : b \in BOOLEAN}
                    \cup {[online |-> FALSE, disabled |-> TRUE],
                          [online |-> FALSE, skipped |-> TRUE],
                          CheckResult(TRUE)}
        withP == base \cup {("players" :> pl) @@ r :
                               pl \in {players1, players2}, r \in base}
    IN  withP \cup {("version" :> v) @@ r : v \in {"1.20", "1.19"}, r \in withP}

\* Prior snapshot files: none, one written by this program, and arrays of
\* status objects with a record for "a".
MergePriors ==
    {FileMissing,
     FileJson(JsonObject(sA :> priorRecord)),
     FileJson(JsonArray(<<StatusObj([id |-> JStr(sA)] @@ priorRecord)>>)),
     FileJson(JsonArray(<<StatusObj([id |-> JStr(sA), online |-> FALSE,
                                     lastCheckAt |-> 0, note |-> "x"])>>))}

MgInit ==
    /\ \E prior \in MergePriors, id \in MergeIds, r \in MergeResults,
          at \in 1..2 :
          mg = MgNew(prior, JStr(id), r, at)
    /\ PoolIdle
    /\ TickIdle
    /\ CkIdle
    /\ RtIdle
    /\ ViIdle
    /\ LvIdle

\* lines 428-459: the prior snapshot is read and indexed and the mapper
\* merges the Check Result
MgMerge ==
    /\ mg.pc = "new"
    /\ LET raw == readJsonIfExists(mg.prior, JsonArray(<<>>)).val
           statusIndex == makeStatusIndex(normalizeStatusArray(raw))
       IN  mg' = [mg EXCEPT
                 !.pc = "merged",
                 !.next = mergeNext(baseOf(statusIndex, mg.id), mg.id,
                                    mg.result, mg.checkedAt)]
    /\ UNCHANGED <<poolVars, tickVars, ckVars, rtVars, viVars, lvVars>>

\* lines 462-476: the snapshot of the tick
MgEmit ==
    /\ mg.pc = "merged"
    /\ mg' = [mg EXCEPT !.pc = "emitted",
                        !.snap = buildNextStatus(<<StatusObj(mg.next)>>)]
    /\ UNCHANGED <<poolVars, tickVars, ckVars, rtVars, viVars, lvVars>>

\* the next tick: same target, same Check Result, a later time, and the
\* file the first tick wrote as its prior snapshot
MgAgain ==
    /\ mg.pc = "emitted"
    /\ mg.round = 1
    /\ mg' = [mg EXCEPT !.pc = "new", !.round = 2,
                        !.prior = FileJson(JsonObject(mg.snap)),
                        !.first = mg.snap,
                        !.checkedAt = mg.checkedAt + 1]
    /\ UNCHANGED <<poolVars, tickVars, ckVars, rtVars, viVars, lvVars>>

MgNext == MgMerge \/ MgEmit \/ MgAgain

SpecMerge == MgInit /\ [][MgNext]_vars

(***************************************************************************)
(* SpecRoute: one target with a valid id taken through runCheck, lines     *)
(* 353-383, the merge of the mapper and the snapshot loop, lines 444-472.  *)
(* The prior snapshot has a record with players and version for the id.    *)
(***************************************************************************)
sFALSE == <<"F", "A", "L", "S", "E">>

sFtp == <<"f", "t", "p", ":", "/", "/", "w">>

RouteEnabled ==
    {JUndef, JBool(TRUE), JBool(FALSE), JStr(sFalse), JStr(sFALSE), JNum(0),
     JNum(1), JStr(<<"0">>)}

RouteUrls == {JUndef, JStr(sUrl), JStr(sFtp)}

RouteIps == {JUndef, JStr(sIp), JStr(sWildcard), JStr(<<>>)}

RouteHosts == {JUndef, JStr(<<"h">>), JStr(sWildcard)}

RoutePorts ==
    {JUndef, JNum(25565), JNum(0), JNum(-1), JStr(<<"8", "0">>), JStr(<<"x">>)}

RouteTimeouts == {JUndef, JNum(100)}

RoutePrior == makeStatusIndex(<<StatusObj([id |-> JStr(sA)] @@ priorRecord)>>)

RtInit ==
    /\ \E e \in RouteEnabled, u \in RouteUrls, i \in RouteIps, h \in RouteHosts,
          p \in RoutePorts, ms \in RouteTimeouts :
          rt = RtNew(Target(JStr(sA), e, u, i, h, p, ms))
    /\ PoolIdle
    /\ TickIdle
    /\ CkIdle
    /\ MgIdle
    /\ ViIdle
    /\ LvIdle

\* runCheck up to its return statement: a marker result at once, or the
\* call of a checker (lines 373-380)
RtRunCheck ==
    /\ rt.pc = "new"
    /\ LET plan == runCheck(rt.server) IN
       IF plan.kind \in {"http", "tcp"}
       THEN rt' = [rt EXCEPT !.pc = "checking", !.dialed = plan.kind]
       ELSE rt' = [rt EXCEPT
                !.pc = "settled",
                !.ret = CHOOSE o \in runCheckOutcomes(rt.server) : TRUE]
    /\ UNCHANGED <<poolVars, tickVars, ckVars, mgVars, viVars, lvVars>>

\* the checker's promise settles
RtChecker ==
    /\ rt.pc = "checking"
    /\ \E o \in runCheckOutcomes(rt.server) :
          rt' = [rt EXCEPT !.pc = "settled", !.ret = o]
    /\ UNCHANGED <<poolVars, tickVars, ckVars, mgVars, viVars, lvVars>>

\* lines 446-472: the mapper merges the result (the pool stores the marker
\* of a rejection) and the snapshot is built
RtRecord ==
    /\ rt.pc = "settled"
    /\ LET item == IF rt.ret.st = "ok"
                   THEN StatusObj(mergeNext(baseOf(RoutePrior, rt.server.id),
                                            rt.server.id, rt.ret.val, 1))
                   ELSE ErrorMarker(rt.ret.err)
       IN  rt' = [rt EXCEPT !.pc = "emitted",
                            !.snap = buildNextStatus(<<item>>)]
    /\ UNCHANGED <<poolVars, tickVars, ckVars, mgVars, viVars, lvVars>>

RtNext == RtRunCheck \/ RtChecker \/ RtRecord

SpecRoute == RtInit /\ [][RtNext]_vars

(***************************************************************************)
(* SpecVarint: a number is written by writeVarInt and the bytes are read   *)
(* back by readVarInt, lines 208-235.                                      *)
(***************************************************************************)
\* Numbers on both sides of every change of the encoded length, up to
\* 2^31 - 1, and 2^31 itself.
VarintInputs ==
    {Uint32(h, l) : h \in {0, 1, 31, 32, 4095, 4096, 32767},
                    l \in {0, 1, 127, 128, 16383, 16384, 65535}}
        \cup {Uint32(32768, 0)}

ViInit ==
    /\ \E v \in VarintInputs : vi = ViNew(v)
    /\ PoolIdle
    /\ TickIdle
    /\ CkIdle
    /\ MgIdle
    /\ RtIdle
    /\ LvIdle

\* writeVarInt(v): v >>> 0 of a number below 2^32 is the number
ViWrite ==
    /\ vi.pc = "new"
    /\ vi' = [vi EXCEPT !.pc = "written", !.bytes = writeVarIntLoop(vi.v)]
    /\ UNCHANGED <<poolVars, tickVars, ckVars, mgVars, rtVars, lvVars>>

\* readVarInt(bytes, 0)
ViRead ==
    /\ vi.pc = "written"
    /\ vi' = [vi EXCEPT !.pc = "read", !.out = readVarInt(vi.bytes, 0)]
    /\ UNCHANGED <<poolVars, tickVars, ckVars, mgVars, rtVars, lvVars>>

ViNext == ViWrite \/ ViRead

SpecVarint == ViInit /\ [][ViNext]_vars

(***************************************************************************)
(* SpecLive: the process of Spec, with the check of every target run by    *)
(* its checker (lines 144-195) instead of settling by itself.  The steps   *)
(* of the program and the timers are fair; what the peer does (connect,    *)
(* error, response) may never happen.                                      *)
(***************************************************************************)
MaxLiveTargets == 1     \* longest target list of SpecLive

LiveTargets == {tHttp, tTcp, tBadPort, tDisabled}

LiveConfigs ==
    {FileMissing}
        \cup {FileJson(JsonArray(c)) : c \in SeqsUpTo(LiveTargets, MaxLiveTargets)}

LivePriors == {FileMissing, FileGarbage}

LiveStatuses == {200, 500}

\* The mapper of line 434 run to its first suspension for one target:
\* runCheck calls checkHttp or checkTcp, which starts (ckStart), or no
\* checker is called.
startChecker(server) ==
    IF server.t # "obj" \/ invalidId(server.id)
    THEN CkNew("none", TRUE, <<>>)
    ELSE LET plan == runCheck(server) IN
         CASE plan.kind = "http" -> ckStart(CkNew("http", TRUE, <<>>))
           [] plan.kind = "tcp"  ->
                ckStart(CkNew("tcp", portInRange(plan.port), <<>>))
           [] OTHER              -> CkNew("none", TRUE, <<>>)

\* lines 444-459: what the mapper returns once runCheck has settled with ret
mapperAfter(server, statusIndex, checkedAt, ret) ==
    IF ret.st = "ok"
    THEN Fulfilled(StatusObj(mergeNext(baseOf(statusIndex, server.id),
                                       server.id, ret.val, checkedAt)))
    ELSE ret

LInit ==
    /\ PoolIdle
    /\ CkIdle
    /\ MgIdle
    /\ RtIdle
    /\ ViIdle
    /\ ticks = [t \in 1..NTICKS |-> TickNew]
    /\ cks = [t \in 1..NTICKS |-> <<>>]
    /\ \E c \in LiveConfigs, prior \in LivePriors :
          fs = [config |-> c,
                inodes |-> IF prior = FileMissing THEN <<>> ELSE <<prior>>,
                dest   |-> IF prior = FileMissing THEN 0 ELSE 1,
                tmp    |-> [n \in 0..MaxClock |-> 0]]
    /\ clock = 0
    /\ exitCode = 0

\* lines 428-434, as TReadStatus, with the checkers the mappers start
LReadStatus(t) ==
    /\ ticks[t].pc = "readStatus"
    /\ LET r == readJsonIfExists(FileAt(fs, fs.dest), JsonArray(<<>>)) IN
       IF r.st = "err"
       THEN /\ ticks' = [ticks EXCEPT ![t].pc = "failed",
                                      ![t].statusFile = FileAt(fs, fs.dest)]
            /\ exitCode' = 1
            /\ UNCHANGED cks
       ELSE /\ ticks' = [ticks EXCEPT
                   ![t].pc = "pool",
                   ![t].statusFile = FileAt(fs, fs.dest),
                   ![t].statusIndex = makeStatusIndex(normalizeStatusArray(r.val)),
                   ![t].checkedAt = clock,
                   ![t].pool = PoolSpawnAll(PoolNew(ticks[t].config, CONCURRENCY))]
            /\ cks' = [cks EXCEPT ![t] =
                          [k \in 1..Len(ticks[t].config) |->
                              startChecker(ticks[t].config[k])]]
            /\ UNCHANGED exitCode
    /\ UNCHANGED <<fs, clock, poolVars, ckVars, mgVars, rtVars, viVars>>

\* runCheck has settled: the mapper returns and the worker awaiting it
\* resumes, lines 129-132 and 444-459
LSettle(t) ==
    /\ ticks[t].pc = "pool"
    /\ \E w \in DOMAIN ticks[t].pool.workers :
          LET idx    == ticks[t].pool.workers[w].idx
              server == ticks[t].config[idx + 1]
              c      == cks[t][idx + 1]
          IN  /\ PoolCanSettle(ticks[t].pool, idx)
              /\ IF c.kind = "none"
                 THEN \E o \in mapperOutcomes(server, ticks[t].statusIndex,
                                              ticks[t].checkedAt) :
                         ticks' = [ticks EXCEPT
                             ![t].pool = PoolResume(PoolSettle(@, idx, o), w)]
                 ELSE /\ c.ret.st # "pending"
                      /\ ticks' = [ticks EXCEPT
                             ![t].pool = PoolResume(
                                 PoolSettle(@, idx,
                                     mapperAfter(server, ticks[t].statusIndex,
                                                 ticks[t].checkedAt, c.ret)),
                                 w)]
    /\ UNCHANGED <<fs, clock, exitCode, cks, poolVars, ckVars, mgVars, rtVars, viVars>>

\* the timer of withTimeout fires, line 70
LGuard(t, k) ==
    /\ k \in DOMAIN cks[t]
    /\ cks[t][k].guard = "armed"
    /\ cks' = [cks EXCEPT ![t][k] = guardFires(@)]
    /\ UNCHANGED <<tickVars, poolVars, ckVars, mgVars, rtVars, viVars>>

\* 'timeout' of the socket, line 156
LSocketTimeout(t, k) ==
    /\ k \in DOMAIN cks[t]
    /\ cks[t][k].kind = "tcp"
    /\ cks[t][k].stimer = "armed"
    /\ cks[t][k].sock = "connecting"
    /\ cks' = [cks EXCEPT ![t][k] = onSocketTimeout(@)]
    /\ UNCHANGED <<tickVars, poolVars, ckVars, mgVars, rtVars, viVars>>

\* the peer: 'connect' or 'error' of a socket, a response or a network error
\* of a fetch
LPeer(t, k) ==
    /\ k \in DOMAIN cks[t]
    /\ \/ /\ cks[t][k].kind = "tcp"
          /\ cks[t][k].sock = "connecting"
          /\ \/ cks' = [cks EXCEPT ![t][k] = onConnect(@)]
             \/ cks' = [cks EXCEPT ![t][k] = onError(@)]
       \/ /\ cks[t][k].kind = "http"
          /\ cks[t][k].sock = "inflight"
          /\ \/ \E status \in LiveStatuses :
                   cks' = [cks EXCEPT ![t][k] =
                       settleInner([@ EXCEPT !.sock = "responded",
                                             !.status = status],
                                   Fulfilled(status))]
             \/ cks' = [cks EXCEPT ![t][k] =
                    settleInner([@ EXCEPT !.sock = "failed"],
                                Rejected("TypeError"))]
    /\ UNCHANGED <<tickVars, poolVars, ckVars, mgVars, rtVars, viVars>>

LNext ==
    \/ \E t \in DOMAIN ticks : TReadConfig(t)
    \/ \E t \in DOMAIN ticks : LReadStatus(t)
    \/ \E t \in DOMAIN ticks : LSettle(t)
    \/ \E t \in DOMAIN ticks : TBuild(t)
    \/ \E t \in DOMAIN ticks : TOpen(t)
    \/ \E t \in DOMAIN ticks : TWrite(t)
    \/ \E t \in DOMAIN ticks : TRename(t)
    \/ \E t \in DOMAIN ticks, k \in 1..MaxLiveTargets : LGuard(t, k)
    \/ \E t \in DOMAIN ticks, k \in 1..MaxLiveTargets : LSocketTimeout(t, k)
    \/ \E t \in DOMAIN ticks, k \in 1..MaxLiveTargets : LPeer(t, k)
    \/ ClockTick

\* The event loop runs every continuation that is ready, file operations
\* complete, and an armed timer fires.
LFair ==
    \A t \in 1..NTICKS :
        /\ WF_vars(TReadConfig(t))
        /\ WF_vars(LReadStatus(t))
        /\ WF_vars(LSettle(t))
        /\ WF_vars(TBuild(t))
        /\ WF_vars(TOpen(t))
        /\ WF_vars(TWrite(t))
        /\ WF_vars(TRename(t))
        /\ \A k \in 1..MaxLiveTargets :
              WF_vars(LGuard(t, k)) /\ WF_vars(LSocketTimeout(t, k))

SpecLive == LInit /\ [][LNext]_vars /\ LFair

(***************************************************************************)
(* Claims about mapWithConcurrency, checked under SpecPool.                *)
(***************************************************************************)

\* What the mapper call of position k produced, as the pool records it:
\* the fulfilment value, or the marker of line 131 around the error.
OutcomeOf(call) ==
    IF call.st = "ok" THEN call.val ELSE ErrorMarker(call.err)

\* C1: when mapWithConcurrency returns, results has exactly items.length
\* entries and results[i] is the outcome of the mapper call made with
\* (items[i], i), whatever the limit and the order in which calls settled.
C1_ResultsFollowItems ==
    pool.returned =>
        /\ Len(pool.results) = Len(pool.items)
        /\ \A k \in 1..Len(pool.items) :
              /\ pool.calls[k].st \in {"ok", "err"}
              /\ pool.results[k] = OutcomeOf(pool.calls[k])
              /\ LET v == IF pool.calls[k].st = "ok"
                          THEN pool.calls[k].val ELSE pool.calls[k].err
                 IN  v.item = pool.items[k] /\ v.idx = k - 1

\* C1 witness: a returned call over three items whose mapper calls settled
\* out of index order, one of them by throwing.
C1_Witness_OutOfOrder ==
    /\ pool.returned
    /\ Len(pool.items) = 3
    /\ pOrder[1] # 0
    /\ \E k \in 1..3 : pool.results[k].t = "errmark"
    /\ \E k \in 1..3 : pool.results[k].t = "val"

\* C5: the mapper calls started and not yet settled never number more than
\* the limit.
C5_InFlightAtMostLimit == Cardinality(InFlight(pool)) <= pool.limit

\* C5 witness: the limit is reached with items still waiting, after a worker
\* has already taken a second item.
C5_Witness_LimitReached ==
    /\ pool.limit >= 2
    /\ pool.limit < Len(pool.items)
    /\ pool.i > pool.limit
    /\ Cardinality(InFlight(pool)) = pool.limit

(***************************************************************************)
(* Claims about a tick, checked under Spec.                                *)
(***************************************************************************)

\* The ids of a target list that are non-blank strings.
ValidIds(config) ==
    {config[k].id.s : k \in {j \in DOMAIN config :
                              config[j].t = "obj" /\ ~invalidId(config[j].id)}}

\* C2: a target whose check threw inside the pool gets a marker that main
\* treats as offline: the snapshot the tick builds records it with
\* online = false.
C2_ThrownCheckIsOffline ==
    \A t \in DOMAIN ticks :
        ticks[t].pool.returned =>
            \A k \in DOMAIN ticks[t].config :
                LET server == ticks[t].config[k] IN
                (/\ ticks[t].pool.results[k].t = "errmark"
                 /\ server.t = "obj"
                 /\ ~invalidId(server.id))
                    => /\ server.id.s \in DOMAIN ticks[t].nextStatus
                       /\ ticks[t].nextStatus[server.id.s].online = FALSE

\* C3: the snapshot a tick has written has exactly the valid ids of its
\* target list as keys, whatever the outcome of each check.
C3_SnapshotKeysAreValidIds ==
    \A t \in DOMAIN ticks :
        ticks[t].wrote =>
            DOMAIN ticks[t].nextStatus = ValidIds(ticks[t].config)

\* C4: what a reader finds at the snapshot path is never a partially
\* written file.
C4_NeverPartialSnapshot == FileAt(fs, fs.dest).k # "empty"

(***************************************************************************)
(* Claims about the merge, checked under SpecMerge.                        *)
(***************************************************************************)

\* C6: the record a tick emits for a target is decided by the tick's Check
\* Result alone: players and version are present exactly when the result
\* supplied them, with its values, nothing of the prior snapshot appears,
\* and a second tick with the same result emits the same record up to
\* lastCheckAt.
C6_RecordFollowsResult ==
    mg.pc = "emitted" =>
        /\ DOMAIN mg.snap = {mg.id.s}
        /\ LET r == mg.snap[mg.id.s] IN
           /\ DOMAIN r \subseteq {"online", "lastCheckAt", "players", "version"}
           /\ r.online = mg.result.online
           /\ r.lastCheckAt = mg.checkedAt
           /\ "players" \in DOMAIN r <=> "players" \in DOMAIN mg.result
           /\ "players" \in DOMAIN r => r.players = mg.result.players
           /\ "version" \in DOMAIN r <=> "version" \in DOMAIN mg.result
           /\ "version" \in DOMAIN r => r.version = mg.result.version
           /\ mg.round = 2 =>
                 Without(r, "lastCheckAt")
                     = Without(mg.first[mg.id.s], "lastCheckAt")

\* C6 witness: the prior snapshot is an array whose record for the target
\* has players and version, the fresh result has neither, and the record
\* has been emitted.
C6_Witness_NothingInherited ==
    /\ mg.pc = "emitted"
    /\ mg.round = 1
    /\ mg.prior = FileJson(JsonArray(<<StatusObj([id |-> JStr(sA)] @@ priorRecord)>>))
    /\ mg.id = JStr(sA)
    /\ "players" \notin DOMAIN mg.result
    /\ "version" \notin DOMAIN mg.result
    /\ "players" \in DOMAIN baseOf(
           makeStatusIndex(normalizeStatusArray(mg.prior.v)), mg.id)

(***************************************************************************)
(* Claims about the checkers, checked under SpecChecker.                   *)
(***************************************************************************)

C9_HttpOnlineIff ==
    (ck.kind = "http" /\ ck.ret.st # "pending") =>
        /\ ck.ret.st = "ok"
        /\ ck.ret.val.online <=>
              /\ ck.sock = "responded"
              /\ ck.guard # "fired"
              /\ ck.status >= 200
              /\ ck.status < 400

\* C9 witness: the timer fired first, checkHttp returned offline, and the
\* response with status 200 arrived afterwards.
C9_Witness_LateResponse ==
    /\ ck.kind = "http"
    /\ ck.guard = "fired"
    /\ ck.sock = "responded"
    /\ ck.status = 200
    /\ ck.ret = Fulfilled(CheckResult(FALSE))

\* The responses of Responses that are non-empty well-formed packets of
\* type 0x00.
WellFormedResponses == {mcPacket(0, d) : d \in {docFull, docNoMax, docEmpty}}

CheckerOutcomesAgree ==
    /\ (ck.kind = "http" /\ ck.ret.st # "pending") => ck.ret \in checkHttpOutcomes
    /\ (ck.kind = "tcp" /\ ck.ret.st # "pending") =>
           ck.ret \in checkTcpOutcomes(JNum(25565))
                        \cup checkTcpOutcomes(JNum(70000))

(***************************************************************************)
(* Claims about fatal conditions, checked under Spec.                      *)
(***************************************************************************)
ConfigIsArray == fs.config.k = "json" /\ fs.config.v.k = "array"

Unparsable(file) == file.k \in {"garbage", "empty"}

\* C11: a tick that finds the target list missing or not an array, or that
\* reads a prior snapshot that does not parse, opens, writes and renames
\* nothing: with a bad target list no file is ever created or replaced, and
\* a tick that read an unparsable snapshot ends without having opened a
\* temp file.
C11_FatalTickWritesNothing ==
    /\ ~ConfigIsArray =>
          /\ \A t \in DOMAIN ticks :
                /\ ticks[t].pc \in {"readConfig", "done", "failed"}
                /\ ~ticks[t].wrote
                /\ ticks[t].fd = 0
          /\ \A n \in DOMAIN fs.tmp : fs.tmp[n] = 0
          /\ Len(fs.inodes) <= 1
    /\ \A t \in DOMAIN ticks :
          Unparsable(ticks[t].statusFile) =>
              /\ ticks[t].pc = "failed"
              /\ ~ticks[t].wrote
              /\ ticks[t].fd = 0

\* C11 witness: both ticks read the unparsable prior snapshot and ended,
\* and the file is still there as it was.
C11_Witness_GarbageKept ==
    /\ ConfigIsArray
    /\ \A t \in DOMAIN ticks :
          ticks[t].statusFile = FileGarbage /\ ticks[t].pc = "failed"
    /\ FileAt(fs, fs.dest) = FileGarbage
    /\ exitCode = 1

\* C12: when the run has ended, the exit code is non-zero exactly when a
\* fatal condition occurred: the target list is missing or not an array, or
\* a tick read a prior snapshot that does not parse.
C12_NonZeroExitIffFatal ==
    (\A t \in DOMAIN ticks : ticks[t].pc \in {"done", "failed"}) =>
        (exitCode # 0 <=>
            \/ ~ConfigIsArray
            \/ \E t \in DOMAIN ticks : Unparsable(ticks[t].statusFile))

(***************************************************************************)
(* Claims about routing, checked under SpecRoute.                          *)
(***************************************************************************)

\* enabled is false, "false" in any letter case, or 0
SaidDisabled(server) ==
    \/ server.enabled \in {JBool(FALSE), JNum(0)}
    \/ /\ server.enabled.t = "str"
       /\ Len(server.enabled.s) = 5
       /\ \A k \in 1..5 : server.enabled.s[k] \in {sFalse[k], sFALSE[k]}

\* the host the target names: ip, else host
NamedHost(server) ==
    IF server.ip.t = "str" /\ server.ip.s # <<>> THEN server.ip ELSE server.host

WildcardHost(server) == NamedHost(server) = JStr(sWildcard)

\* a string that begins with http
UsableUrl(server) ==
    /\ server.url.t = "str"
    /\ Len(server.url.s) >= 4
    /\ \A k \in 1..4 : server.url.s[k] = sHttp[k]

\* a port that is a positive number or the decimal text of one; the host is
\* the named one or, without it, the loopback address
UsableHostPort(server) ==
    \/ server.port.t = "num" /\ server.port.n > 0
    \/ /\ server.port.t = "str"
       /\ server.port.s # <<>>
       /\ \A k \in DOMAIN server.port.s : IsDigit(server.port.s[k])
       /\ \E k \in DOMAIN server.port.s : server.port.s[k] # "0"

NeverDialed(server) ==
    \/ SaidDisabled(server)
    \/ WildcardHost(server)
    \/ ~UsableUrl(server) /\ ~UsableHostPort(server)

\* C13: a disabled target, a target whose host is 0.0.0.0 and a target with
\* neither a usable URL nor a usable host and port starts no checker; runCheck
\* returns online = false with the disabled marker, or else the skipped
\* marker, and the snapshot record is offline without players or version.
C13_NeverDialed ==
    (rt.pc # "new" /\ NeverDialed(rt.server)) =>
        /\ rt.dialed = "none"
        /\ rt.pc # "checking"
        /\ rt.ret = IF SaidDisabled(rt.server)
                    THEN Fulfilled([online |-> FALSE, disabled |-> TRUE])
                    ELSE Fulfilled([online |-> FALSE, skipped |-> TRUE])
        /\ rt.pc = "emitted" =>
              /\ DOMAIN rt.snap = {sA}
              /\ rt.snap[sA].online = FALSE
              /\ DOMAIN rt.snap[sA] = {"online", "lastCheckAt"}

\* C13 witness: a target with a usable URL and enabled = 0 has its record.
C13_Witness_DisabledByZero ==
    /\ rt.pc = "emitted"
    /\ rt.server.enabled = JNum(0)
    /\ UsableUrl(rt.server)
    /\ ~WildcardHost(rt.server)
    /\ "players" \in DOMAIN baseOf(RoutePrior, rt.server.id)

\* the checker the precedence of the router names
Precedence(server) ==
    IF UsableUrl(server) THEN "http"
    ELSE IF UsableHostPort(server) THEN "tcp"
    ELSE "none"

\* C14 as stated: every enabled target is checked by the checker the
\* precedence names (URL, else host and port, else none and offline).
C14_PrecedenceForEveryEnabled ==
    (rt.pc # "new" /\ ~SaidDisabled(rt.server)) =>
        /\ rt.dialed = Precedence(rt.server)
        /\ (rt.dialed = "none" /\ rt.pc # "checking") =>
               (rt.ret.st = "ok" /\ rt.ret.val.online = FALSE)

\* C14 amended: every enabled target whose host is not 0.0.0.0 is checked by
\* the checker the precedence names; with the host 0.0.0.0 no checker runs,
\* URL or not; without a checker the result is online = false.
C14_PrecedenceUnlessWildcard ==
    (rt.pc # "new" /\ ~SaidDisabled(rt.server)) =>
        /\ rt.dialed = IF WildcardHost(rt.server) THEN "none"
                       ELSE Precedence(rt.server)
        /\ (rt.dialed = "none" /\ rt.pc # "checking") =>
               (rt.ret.st = "ok" /\ rt.ret.val.online = FALSE)

\* C14 witness: an enabled target with both a usable URL and a usable host
\* and port has been given to the HTTP checker.
C14_Witness_UrlBeforeHostPort ==
    /\ rt.pc = "checking"
    /\ ~SaidDisabled(rt.server)
    /\ ~WildcardHost(rt.server)
    /\ UsableUrl(rt.server)
    /\ UsableHostPort(rt.server)
    /\ rt.dialed = "http"

(***************************************************************************)
(* Claims about the varint codec, checked under SpecVarint.                *)
(***************************************************************************)

\* the number n read back is the number v that was written
SameNumber(n, v) == n >= 0 /\ n \div 65536 = v.hi /\ n % 65536 = v.lo

\* C15: for every v from 0 to 2^31, reading back what writeVarInt wrote
\* gives the value v and a size equal to the number of bytes written, at
\* most 5.
C15_VarintRoundTrip ==
    vi.pc = "read" =>
        /\ vi.out # JNull
        /\ SameNumber(vi.out.value, vi.v)
        /\ vi.out.size = Len(vi.bytes)
        /\ vi.out.size <= 5

\* The round trip holds for every number below 2^31.
VarintRoundTripBelowTwo31 ==
    (vi.pc = "read" /\ vi.v.hi < 32768) =>
        /\ vi.out # JNull
        /\ SameNumber(vi.out.value, vi.v)
        /\ vi.out.size = Len(vi.bytes)
        /\ vi.out.size <= 5

(***************************************************************************)
(* Claims about the ticks of a run, checked under Spec.                    *)
(***************************************************************************)

\* the executions of main that are inside atomicWriteJson, lines 86-94
Writers == {t \in DOMAIN ticks : ticks[t].pc \in {"open", "write", "rename"}}

\* C16: at most one execution of main is in progress at any instant, so at
\* most one is writing the snapshot: never are two of them inside
\* atomicWriteJson together.
C16_OneWriterAtATime == Cardinality(Writers) <= 1

(***************************************************************************)
(* Claims about checkMinecraft, checked under SpecChecker.                 *)
(***************************************************************************)

\* C17: whenever checkMinecraft has delivered its outcome (a parsed result,
\* offline after a socket timeout or an error, or the expiry of the guard
\* timer), the socket has been closed.
C17_McSettledMeansClosed ==
    (ck.kind = "mc" /\ ck.ret.st # "pending") => ~StillOpen(ck)

\* the length prefix of the packet exceeds the bytes that follow it
Truncated(buf) ==
    LET lenInfo == readVarInt(buf, 0) IN
    lenInfo # JNull /\ lenInfo.value > Len(buf) - lenInfo.size

\* C18: when the connection closes on a truncated response (a length
\* prefix larger than the bytes after it) and checkMinecraft has not
\* settled before, it settles with online = false.
C18_TruncatedMeansOffline ==
    [][(/\ ck.kind = "mc"
        /\ Truncated(ck.buf)
        /\ ~ck.closeEmitted
        /\ ck'.closeEmitted
        /\ ck.ret.st = "pending")
           => (ck'.ret.st = "ok" /\ ck'.ret.val.online = FALSE)]_vars

\* Responses with a varint that ends early or has no last byte within 5,
\* with a packet type other than 0x00, or with a status document that does
\* not parse.
MalformedResponses ==
    {<<2, 128>>, <<128, 128, 128, 128, 128, 1>>, mcPacket(1, docFull),
     mcPacket(0, <<123>>)}

\* C19: readVarInt gives null for a varint that ends early or is longer
\* than 5 bytes, and when a malformed response has been received,
\* checkMinecraft settles with online = false and never with a rejection.
C19_MalformedMeansOffline ==
    [][(/\ ck.kind = "mc"
        /\ ck.resp \in MalformedResponses
        /\ ck.buf = ck.resp
        /\ ck.ret.st = "pending"
        /\ ck'.ret.st # "pending")
           => (/\ readVarInt(<<128>>, 0) = JNull
               /\ readVarInt(<<128, 128, 128, 128, 128, 1>>, 0) = JNull
               /\ ck'.ret.st = "ok"
               /\ ck'.ret.val.online = FALSE)]_vars

\* The 'close' handler alone gives online = false for a malformed response,
\* and readVarInt gives null for the bad varints.
MalformedAtCloseIsOffline ==
    /\ readVarInt(<<>>, 0) = JNull
    /\ readVarInt(<<128>>, 0) = JNull
    /\ readVarInt(<<2, 128>>, 1) = JNull
    /\ readVarInt(<<128, 128, 128, 128, 128>>, 0) = JNull
    /\ readVarInt(<<128, 128, 128, 128, 128, 1>>, 0) = JNull
    /\ \A r \in MalformedResponses : parseStatusResponse(r) = Offline

(***************************************************************************)
(* More claims about mapWithConcurrency, checked under SpecPool.           *)
(***************************************************************************)

\* C20: when mapWithConcurrency resolves, the cursor has passed every index,
\* every mapper call has been started and has settled, and no call is in
\* flight.
C20_DrainedBeforeReturn ==
    pool.returned =>
        /\ pool.i >= Len(pool.items)
        /\ \A k \in 1..Len(pool.items) :
              pool.calls[k] # NotCalled /\ pool.calls[k].st # "pending"
        /\ InFlight(pool) = {}
        /\ \A w \in DOMAIN pool.workers : pool.workers[w].pc = "done"

\* C20 witness: a call over three items with two workers has returned, the
\* last call to settle being the one for the first item.
C20_Witness_SlowFirstItem ==
    /\ pool.returned
    /\ Len(pool.items) = 3
    /\ pool.limit = 2
    /\ pOrder[3] = 0

\* C21: every index is claimed from the cursor by exactly one worker and
\* the mapper is called once for it: the indexes below the cursor have one
\* call each and the others none, no two workers hold the same index, and
\* at the return every index has had its one call.
C21_EachIndexClaimedOnce ==
    /\ \A k \in 1..Len(pool.items) :
          /\ pool.invoked[k] = IF k <= pool.i THEN 1 ELSE 0
          /\ pool.returned => pool.invoked[k] = 1
    /\ \A w1, w2 \in DOMAIN pool.workers :
          (/\ w1 # w2
           /\ pool.workers[w1].pc = "await"
           /\ pool.workers[w2].pc = "await")
              => pool.workers[w1].idx # pool.workers[w2].idx

\* C21 witness: two workers over three items; one has come back for the
\* third item while the other still waits.
C21_Witness_TwoWorkersThreeItems ==
    /\ Len(pool.items) = 3
    /\ pool.limit = 2
    /\ pool.i = 3
    /\ \A w \in DOMAIN pool.workers : pool.workers[w].pc = "await"
    /\ pool.invoked = <<1, 1, 1>>

(***************************************************************************)
(* Termination, checked under SpecLive.                                    *)
(***************************************************************************)

\* the execution of main has ended: after its write, or by an abort
Ended(t) == ticks[t].pc \in {"done", "failed"}

\* every check the execution started has settled
ChecksSettled(t) ==
    \A k \in DOMAIN cks[t] :
        cks[t][k].pc = "running" => cks[t][k].ret.st # "pending"

\* every worker of its pool has found the cursor exhausted
WorkersDone(t) ==
    \A w \in DOMAIN ticks[t].pool.workers : ticks[t].pool.workers[w].pc = "done"

\* C22: every execution of main terminates, whatever the peers do: from
\* some moment on every started check has settled, every worker of the pool
\* has left its loop, and main has ended after its snapshot write or by an
\* abort.
C22_EveryTickTerminates ==
    <>[](\A t \in 1..NTICKS : Ended(t) /\ ChecksSettled(t) /\ WorkersDone(t))

\* C22 witness: the peer of an HTTP target never answered, the timer
\* settled the check, and the execution of main has written its snapshot.
C22_Witness_SilentPeer ==
    \E t \in 1..NTICKS :
        /\ ticks[t].pc = "done"
        /\ ticks[t].wrote
        /\ Len(cks[t]) = 1
        /\ cks[t][1].kind = "http"
        /\ cks[t][1].sock = "inflight"
        /\ cks[t][1].guard = "fired"

====
